---------------------------- MODULE Spec2Model ----------------------------
(***************************************************************************)
(* A model of the yolo-sam detection service: the ONNX detector            *)
(* (src/detection/onnx_detector.py) and the Lambda request handler         *)
(* (src/detection/app.py).                                                 *)
(*                                                                         *)
(* Numbers.  The program computes in floating point; the model computes    *)
(* in exact fixed point:                                                   *)
(*   - a probability, score or threshold is an integer number of           *)
(*     thousandths (One = 1.0);                                            *)
(*   - a normalised box component of the query-transformer output is an    *)
(*     integer number of quarters (BoxOne = 1.0);                          *)
(*   - a box coordinate of a DetectionResult is an exact rational          *)
(*     <<numerator, denominator>> with denominator > 0.                    *)
(***************************************************************************)
EXTENDS Integers, Sequences, FiniteSets, TLC

(***************************************************************************)
(* Bounds of the model.                                                    *)
(***************************************************************************)
MaxQueries == 2
MaxAnchors == 3
MaxCluster == 4

(***************************************************************************)
(* Program constants.                                                      *)
(***************************************************************************)
One == 1000
BoxOne == 4
MAX_NUMBER_BOXES == 300
DEFAULT_CONF_THRES == 700
DEFAULT_IOU_THRES == 500
DEFAULT_INPUT_SIZE == 640

(***************************************************************************)
(* Arithmetic helpers.                                                     *)
(***************************************************************************)
Min(a, b) == IF a <= b THEN a ELSE b

Max(a, b) == IF a >= b THEN a ELSE b

\* int(x) taken as the floor.
FloorDiv(n, d) == n \div d

\* int(x) of Python on the rational n/d (d > 0): truncation toward zero.
TruncDiv(n, d) == IF n >= 0 THEN n \div d ELSE -((-n) \div d)

\* Order on rationals <<n, d>> with d > 0.
RatLE(a, b) == a[1] * b[2] <= b[1] * a[2]

Range(s) == {s[i] : i \in DOMAIN s}

Reverse(s) == [i \in 1..Len(s) |-> s[Len(s) + 1 - i]]

\* s[idx] of numpy: the elements of s at the indices idx, in idx's order.
Gather(s, idx) == [i \in 1..Len(idx) |-> s[idx[i]]]

\* Take without the truncation.
TakeAll(s, k) == s

\* s[:k] of numpy.
Take(s, k) == SubSeq(s, 1, Min(k, Len(s)))

\* The indices i, ascending, with keep[i]: what a boolean mask selects.
RECURSIVE MaskIdx(_, _)
MaskIdx(keep, i) ==
    IF i > Len(keep) THEN <<>>
    ELSE (IF keep[i] THEN <<i>> ELSE <<>>) \o MaskIdx(keep, i + 1)

(***************************************************************************)
(* DetectionResult and to_dict_list.                                       *)
(***************************************************************************)
DetectionResult(boxes, scores, labels) ==
    [kind |-> "DetectionResult", boxes |-> boxes, scores |-> scores,
     labels |-> labels]

Raised(exc) == [kind |-> "raise", exc |-> exc]

\* int(x) for each coordinate of one box.
BboxToInt(box) == [k \in 1..4 |-> TruncDiv(box[k][1], box[k][2])]

to_dict_list(r) ==
    [i \in 1..Len(r.scores) |->
        [bbox |-> BboxToInt(r.boxes[i]),
         score |-> r.scores[i],
         class_id |-> r.labels[i]]]

(***************************************************************************)
(* The query-transformer decoder, OnnxDetector._predict_rfdetr.            *)
(***************************************************************************)
\* The logits the model draws from, and 1 / (1 + exp(-x)) of each in
\* thousandths.  In 32-bit floats exp(-20) is below half a unit in the last
\* place of 1, so the sigmoid of 20 is exactly 1.0.
LogitVals == {0, 20}

Sigmoid(x) ==
    CASE x = 0  -> One \div 2
      [] x = 20 -> One

\* np.max(prob, axis=1) for one row.
RowMax(row) == CHOOSE m \in Range(row) : \A v \in Range(row) : v <= m

\* The first index of the minimum of a row, counted from 0.
RowArgMin(row) ==
    (CHOOSE i \in DOMAIN row : \A j \in DOMAIN row :
        row[i] <= row[j] /\ (row[j] = row[i] => i <= j)) - 1

\* np.argmax(prob, axis=1) for one row: the first index of the maximum,
\* counted from 0.
RowArgMax(row) ==
    (CHOOSE i \in DOMAIN row :
        /\ row[i] = RowMax(row)
        /\ \A j \in DOMAIN row : row[j] = RowMax(row) => i <= j) - 1

\* The results np.argsort(scores) may give: every permutation of the indices
\* that puts the scores in ascending order.  The default sort kind is not
\* stable, so the order among equal scores is any.
ArgSorts(scores) ==
    {p \in [1..Len(scores) -> 1..Len(scores)] :
        /\ \A i, j \in 1..Len(scores) : i # j => p[i] # p[j]
        /\ \A i \in 1..(Len(scores) - 1) : scores[p[i]] <= scores[p[i + 1]]}

\* KeepMask with the threshold comparison dropped.
KeepMaskAll(scores, conf_thres) ==
    [i \in 1..Len(scores) |-> TRUE]

\* scores > conf_thres, elementwise.
KeepMask(scores, conf_thres) ==
    [i \in 1..Len(scores) |-> scores[i] > conf_thres]

\* OnnxDetector._box_cxcywh_to_xyxy on one box <<cx, cy, w, h>> in quarters:
\* (cx - w/2) * w_img = (2*cx - w) * w_img / (2 * BoxOne), and so on.
box_cxcywh_to_xyxy(x, w_img, h_img) ==
    << <<(2 * x[1] - x[3]) * w_img, 2 * BoxOne>>,
       <<(2 * x[2] - x[4]) * h_img, 2 * BoxOne>>,
       <<(2 * x[1] + x[3]) * w_img, 2 * BoxOne>>,
       <<(2 * x[2] + x[4]) * h_img, 2 * BoxOne>> >>

\* Lines 190-215.  pred_boxes and pred_logits are the engine's two outputs,
\* argsort is the permutation np.argsort returned.
predict_rfdetr(pred_boxes, pred_logits, orig_size, conf_thres, max_number_boxes, argsort) ==
    LET prob       == [q \in DOMAIN pred_logits |->
                          [c \in DOMAIN pred_logits[q] |->
                              Sigmoid(pred_logits[q][c])]]
        scores0    == [q \in DOMAIN prob |-> RowMax(prob[q])]
        labels0    == [q \in DOMAIN prob |-> RowArgMax(prob[q])]
        sorted_idx == Reverse(argsort)
        scores1    == Take(Gather(scores0, sorted_idx), max_number_boxes)
        labels1    == Take(Gather(labels0, sorted_idx), max_number_boxes)
        boxes1     == Take(Gather(pred_boxes, sorted_idx), max_number_boxes)
        keep       == MaskIdx(KeepMask(scores1, conf_thres), 1)
        scores     == Gather(scores1, keep)
        labels     == Gather(labels1, keep)
        boxes      == Gather(boxes1, keep)
    IN  DetectionResult(
            [i \in 1..Len(boxes) |->
                box_cxcywh_to_xyxy(boxes[i], orig_size[1], orig_size[2])],
            scores, labels)

(***************************************************************************)
(* The grid-anchor decoder, OnnxDetector._predict_yolov8.  Its input       *)
(* preparer is in the source; utils.post_process and utils.scale_boxes are *)
(* not, and are modelled from sections 4.1 and 4.4 of the specification.   *)
(***************************************************************************)
\* round() with the fraction cut off instead.
RoundDown(n, d) == n \div d

\* round(n / d) of Python 3 for n >= 0, d > 0: to nearest, ties to even.
RoundHalfEven(n, d) ==
    LET q == n \div d
        r == n % d
    IN  IF 2 * r < d THEN q
        ELSE IF 2 * r > d THEN q + 1
        ELSE IF q % 2 = 0 THEN q ELSE q + 1

\* ratio = min(target_w / orig_w, target_h / orig_h), as a rational.
LetterboxRatio(orig_size, target_w, target_h) ==
    IF target_w * orig_size[2] <= target_h * orig_size[1]
    THEN <<target_w, orig_size[1]>>
    ELSE <<target_h, orig_size[2]>>

\* OnnxDetector._prepare_input: the sizes it returns beside the tensor.
prepare_input(orig_size, target_w, target_h) ==
    LET ratio == LetterboxRatio(orig_size, target_w, target_h)
    IN  [orig_size   |-> orig_size,
         scaled_size |-> <<RoundHalfEven(orig_size[1] * ratio[1], ratio[2]),
                           RoundHalfEven(orig_size[2] * ratio[1], ratio[2])>>]

\* Corner form of a centre-size box <<cx, cy, w, h>>, each corner a rational.
CenterSizeToCorners(x) ==
    << <<2 * x[1] - x[3], 2>>, <<2 * x[2] - x[4], 2>>,
       <<2 * x[1] + x[3], 2>>, <<2 * x[2] + x[4], 2>> >>

\* Areas of corner boxes whose coordinates share the denominator 2, in
\* quarter pixels; the ratio of two of them is the ratio of the areas.
BoxArea(b) == (b[3][1] - b[1][1]) * (b[4][1] - b[2][1])

Pos(v) == IF v > 0 THEN v ELSE 0

InterArea(a, b) ==
    Pos(Min(a[3][1], b[3][1]) - (IF a[1][1] >= b[1][1] THEN a[1][1] ELSE b[1][1]))
  * Pos(Min(a[4][1], b[4][1]) - (IF a[2][1] >= b[2][1] THEN a[2][1] ELSE b[2][1]))

UnionArea(a, b) == BoxArea(a) + BoxArea(b) - InterArea(a, b)

\* IoU(a, b) > iou_thres, with iou_thres in thousandths.
IouExceeds(a, b, iou_thres) ==
    InterArea(a, b) * One > iou_thres * UnionArea(a, b)

\* Candidates: the anchors whose best class confidence is not below
\* conf_thres, in input order, with score, class and corner box.
Candidates(anchors, conf_thres) ==
    LET keep == MaskIdx([i \in 1..Len(anchors) |->
                            ~(RowMax(anchors[i].conf) < conf_thres)], 1)
    IN  [k \in 1..Len(keep) |->
            [box   |-> CenterSizeToCorners(anchors[keep[k]].box),
             score |-> RowMax(anchors[keep[k]].conf),
             class |-> RowArgMax(anchors[keep[k]].conf)]]

\* The indices of the candidates by descending score, equal scores in input
\* order.
ScoreOrder(cands) ==
    LET Before(j, i) == \/ cands[j].score > cands[i].score
                        \/ /\ cands[j].score = cands[i].score
                           /\ j < i
        rank == [i \in 1..Len(cands) |->
                    1 + Cardinality({j \in 1..Len(cands) : Before(j, i)})]
    IN  [k \in 1..Len(cands) |-> CHOOSE i \in 1..Len(cands) : rank[i] = k]

\* Whether the candidate c is suppressed by one of the kept candidates.
Suppressed(cands, kept, c, iou_thres) ==
    \E k \in Range(kept) :
        /\ cands[k].class = cands[c].class
        /\ IouExceeds(cands[k].box, cands[c].box, iou_thres)

\* Class-aware non-maximum suppression: walk the candidates in score order
\* and keep each one that no kept candidate of its class suppresses.
RECURSIVE NmsWalk(_, _, _, _, _)
NmsWalk(cands, order, i, kept, iou_thres) ==
    IF i > Len(order) THEN kept
    ELSE NmsWalk(cands, order, i + 1,
                 IF Suppressed(cands, kept, order[i], iou_thres)
                 THEN kept ELSE Append(kept, order[i]),
                 iou_thres)

Nms(cands, iou_thres) == NmsWalk(cands, ScoreOrder(cands), 1, <<>>, iou_thres)

\* utils.post_process: the kept candidates, highest score first.
post_process(anchors, conf_thres, iou_thres) ==
    LET cands == Candidates(anchors, conf_thres)
    IN  Gather(cands, Nms(cands, iou_thres))

\* utils.scale_boxes: each coordinate divided by the letterbox ratio.
scale_boxes(box, ratio) == [k \in 1..4 |-> <<box[k][1] * ratio[2], box[k][2] * ratio[1]>>]

\* predict_yolov8 with the two thresholds passed to post_process in each
\* other's place.
predict_yolov8_swapped(self, orig_size, anchors, conf_thres, iou_thres) ==
    LET dets  == post_process(anchors, iou_thres, conf_thres)
        ratio == LetterboxRatio(orig_size, self.input_width, self.input_height)
    IN  DetectionResult(
            [i \in 1..Len(dets) |-> scale_boxes(dets[i].box, ratio)],
            [i \in 1..Len(dets) |-> dets[i].score],
            [i \in 1..Len(dets) |-> dets[i].class])

\* Lines 105-130.
predict_yolov8(self, orig_size, anchors, conf_thres, iou_thres) ==
    LET meta  == prepare_input(orig_size, self.input_width, self.input_height)
        dets  == post_process(anchors, conf_thres, iou_thres)
        ratio == LetterboxRatio(meta.orig_size, self.input_width, self.input_height)
    IN  IF meta.scaled_size[1] < 1 \/ meta.scaled_size[2] < 1
        THEN Raised("ValueError")
        ELSE
        DetectionResult(
            [i \in 1..Len(dets) |-> scale_boxes(dets[i].box, ratio)],
            [i \in 1..Len(dets) |-> dets[i].score],
            [i \in 1..Len(dets) |-> dets[i].class])

\* predict with every tag but rf-detr sent down the grid-anchor path.
predict_unchecked(self, orig_size, raw, conf_thres, iou_thres, argsort) ==
    IF self.model_type = "rf-detr"
    THEN predict_rfdetr(raw.pred_boxes, raw.pred_logits, orig_size, conf_thres, MAX_NUMBER_BOXES, argsort)
    ELSE predict_yolov8(self, orig_size, raw.anchors, conf_thres, iou_thres)

(***************************************************************************)
(* OnnxDetector.predict, lines 88-103: dispatch on the model family.  raw  *)
(* is what the inference engine returned for the prepared input.           *)
(***************************************************************************)
predict(self, orig_size, raw, conf_thres, iou_thres, argsort) ==
    IF self.model_type = "yolov8"
    THEN predict_yolov8(self, orig_size, raw.anchors, conf_thres, iou_thres)
    ELSE IF self.model_type = "rf-detr"
    THEN predict_rfdetr(raw.pred_boxes, raw.pred_logits, orig_size,
                        conf_thres, MAX_NUMBER_BOXES, argsort)
    ELSE Raised("ValueError")

(***************************************************************************)
(* The request handler, app.py.  A JSON value is a record: t is its type,  *)
(* and n, s or b its content when it is a number (in thousandths), a       *)
(* string or a boolean.  Absent stands for a key the dictionary lacks.     *)
(***************************************************************************)
JVal(t, n, str, b) == [t |-> t, n |-> n, s |-> str, b |-> b]

Absent == JVal("absent", 0, "", FALSE)

JNull == JVal("null", 0, "", FALSE)

JNum(n) == JVal("number", n, "", FALSE)

JStr(str) == JVal("string", 0, str, FALSE)

JBool(b) == JVal("bool", 0, "", b)

JList == JVal("list", 0, "", FALSE)

\* body.get(key, default)
DictGet(body, key, default) ==
    IF body[key] = Absent THEN default ELSE body[key]

\* The numerals among the strings of the model, and their values.
FloatOfStr == ("0.5" :> 500) @@ ("1.5" :> 1500)

\* float(x): a number is itself, True is 1.0 and False 0.0, a string is
\* parsed, anything else is a TypeError.
ToFloat(x) ==
    CASE x.t = "number" -> [ok |-> TRUE, v |-> x.n, exc |-> ""]
      [] x.t = "bool"   -> [ok |-> TRUE, v |-> IF x.b THEN One ELSE 0, exc |-> ""]
      [] x.t = "string" ->
            IF x.s \in DOMAIN FloatOfStr
            THEN [ok |-> TRUE, v |-> FloatOfStr[x.s], exc |-> ""]
            ELSE [ok |-> FALSE, v |-> 0, exc |-> "ValueError"]
      [] OTHER          -> [ok |-> FALSE, v |-> 0, exc |-> "TypeError"]

\* The base64 strings that decode to an image PIL opens, and the size of
\* each image.
ImageSizes == ("<base64 of a 3x2 JPEG>" :> <<3, 2>>)

\* Image.open(BytesIO(base64.b64decode(x.encode("ascii")))): a value that is
\* not a string has no encode, a string must decode to an image.
ImageOpen(x) ==
    IF x.t # "string" THEN [ok |-> FALSE, size |-> <<0, 0>>, exc |-> "AttributeError"]
    ELSE IF x.s \in DOMAIN ImageSizes
    THEN [ok |-> TRUE, size |-> ImageSizes[x.s], exc |-> ""]
    ELSE [ok |-> FALSE, size |-> <<0, 0>>, exc |-> "UnidentifiedImageError"]

\* validation_rules, in the order the dictionary is iterated.
RuleKeys == <<"image", "conf_thres", "iou_thres", "save_image">>

\* A required rule that lets a missing value through.
RequiredNever(key) == FALSE

\* rule.get("required", False)
Required(key) == key = "image"

\* rule.get("default")
RuleDefault(key) ==
    CASE key = "image"      -> JNull
      [] key = "conf_thres" -> JNum(DEFAULT_CONF_THRES)
      [] key = "iou_thres"  -> JNum(DEFAULT_IOU_THRES)
      [] key = "save_image" -> JBool(FALSE)

RuleError(key) ==
    CASE key = "image"      -> "Invalid image data. Must be base64 encoded."
      [] key = "conf_thres" -> "Invalid conf_thres. Must be a float between 0 and 1."
      [] key = "iou_thres"  -> "Invalid iou_thres. Must be a float between 0 and 1."
      [] key = "save_image" -> "Invalid save_image. Must be a boolean."

RangeError(key) ==
    CASE key = "conf_thres" -> "conf_thres must be between 0 and 1"
      [] key = "iou_thres"  -> "iou_thres must be between 0 and 1"

MissingError(key) ==
    CASE key = "image" -> "Missing 'image' in request body"

\* A threshold validator that accepts every float.
InUnitIntervalAlways(f) == TRUE

\* lambda x: 0 <= float(x) <= 1, on a float.
InUnitInterval(f) == 0 <= f /\ f <= One

\* The validators of image and save_image: "ok" when the value passes,
\* "no" when the validator returns a false value, "raise" when it raises.
Validator(key, value) ==
    CASE key = "image" ->
            IF ImageOpen(value).ok THEN "ok" ELSE "raise"
      [] key = "save_image" ->
            IF value.t = "bool" THEN "ok" ELSE "no"

Invalid(error) ==
    [is_valid |-> FALSE, error |-> error,
     validated |-> [k \in Range(RuleKeys) |-> Absent]]

\* The loop of validate_body from the i-th rule on.
RECURSIVE ValidateFrom(_, _, _)
ValidateFrom(body, i, validated) ==
    IF i > Len(RuleKeys)
    THEN [is_valid |-> TRUE, error |-> "", validated |-> validated]
    ELSE LET key   == RuleKeys[i]
             value == DictGet(body, key, RuleDefault(key))
         IN  IF Required(key) /\ value = JNull
             THEN Invalid(MissingError(key))
             ELSE IF value = JNull
             THEN ValidateFrom(body, i + 1, validated)
             ELSE IF key \in {"conf_thres", "iou_thres"}
             THEN LET float_value == ToFloat(value)
                  IN  IF ~float_value.ok
                      THEN Invalid(RuleError(key))
                      ELSE IF ~InUnitInterval(float_value.v)
                      THEN Invalid(RangeError(key))
                      ELSE ValidateFrom(body, i + 1,
                              [validated EXCEPT ![key] = JNum(float_value.v)])
             ELSE IF Validator(key, value) = "ok"
             THEN ValidateFrom(body, i + 1, [validated EXCEPT ![key] = value])
             ELSE Invalid(RuleError(key))

\* A validate_body that accepts every body as it is.
validate_body_unchecked(body) ==
    [is_valid |-> TRUE, error |-> "", validated |-> body]

\* validate_body, lines 121-178.
validate_body(body) ==
    ValidateFrom(body, 1, [k \in Range(RuleKeys) |-> Absent])

(***************************************************************************)
(* State of the detector model.                                            *)
(*   self : the fields of the OnnxDetector the calls are made on           *)
(*   call : the arguments of the last call, and the engine's raw output    *)
(*   ret  : what the last call returned (or raised)                        *)
(* Calls on one detector are sequential: a call is made when the previous  *)
(* one has returned (call.op = "none").                                    *)
(***************************************************************************)
(*   proc : the rest of the process: MODEL_PATH of config.py and whether   *)
(*          the class mapper is cached                                     *)
(*   event, resp, trace : the event of the last lambda_handler invocation, *)
(*          its response, and which steps the invocation went through      *)
(*   pool : the threads of a process that call detect side by side, with   *)
(*          the two lru_cache caches they share                            *)
VARIABLES self, call, ret, proc, event, resp, trace, pool

vars == <<self, call, ret, proc, event, resp, trace, pool>>

\* No thread besides the one the model follows.
NoPool == [pc |-> <<>>]

NoEvent == [httpMethod |-> "none"]

NoResponse == [statusCode |-> 0]

NoTrace == [parsed |-> FALSE, validate_body |-> FALSE, detect |-> FALSE,
            constructed |-> FALSE, inference |-> FALSE, raised |-> ""]

\* The handler state while the detector is called directly.
HandlerIdle ==
    /\ proc = [MODEL_PATH |-> "none", mapper |-> FALSE]
    /\ event = NoEvent
    /\ resp = NoResponse
    /\ trace = NoTrace
    /\ pool = NoPool

Classes == {0, 1}

LogitRows == [1..Cardinality(Classes) -> LogitVals]

\* Query boxes <<cx, cy, w, h>> in quarters: one well inside the frame, one
\* with in-range components that reaches over the left and top edges, one
\* with a negative width.
QueryBoxes == {<<2, 2, 2, 2>>, <<1, 1, 4, 4>>, <<2, 2, -2, 2>>}

OrigSizes == {<<3, 2>>, <<640, 480>>}

\* Thresholds a caller of predict may pass: predict takes any float.
ConfThresholds == {-500, 0, One \div 2, One, 1500}

\* Anchor boxes <<cx, cy, w, h>> in model pixels: a tall box, a wide box in
\* its top third (IoU 1/3 with the tall one), and the left and right halves
\* of the wide box (IoU 1/2 with it, 1/6 with the tall one, 0 with each
\* other).
TallBox == <<4, 3, 8, 6>>

WideBox == <<4, 1, 8, 2>>

LeftBox == <<2, 1, 4, 2>>

RightBox == <<6, 1, 4, 2>>

\* Per-class confidences of one anchor.
AnchorConfs == {<<900, 100>>, <<400, 100>>, <<100, 900>>}

Anchors == [box : {TallBox, WideBox, LeftBox}, conf : AnchorConfs]

\* Anchors of one class and one score on one object.
ClusterAnchors ==
    [box : {TallBox, WideBox, LeftBox, RightBox}, conf : {<<900, 100>>}]

YoloConfThresholds == {0, 500}

IouThresholds == {0, 250, 400, One}

YoloSizes == {<<16, 9>>}

NewDetector(model_type) ==
    [model_type   |-> model_type,
     input_width  |-> DEFAULT_INPUT_SIZE,
     input_height |-> DEFAULT_INPUT_SIZE]

\* The scores np.argsort is applied to (lines 196, 200).
RawScores(pred_logits) ==
    [q \in DOMAIN pred_logits |->
        RowMax([c \in DOMAIN pred_logits[q] |-> Sigmoid(pred_logits[q][c])])]

InitRfdetr ==
    /\ self = NewDetector("rf-detr")
    /\ call = [op |-> "none"]
    /\ ret = [kind |-> "none"]
    /\ HandlerIdle

InitYolov8 ==
    /\ self = NewDetector("yolov8")
    /\ call = [op |-> "none"]
    /\ ret = [kind |-> "none"]
    /\ HandlerIdle

\* detector.predict(image, size, conf_thres, iou_thres) on a query-transformer
\* detector, for an image of size orig_size and any engine output.
PredictRfdetr ==
    /\ call.op = "none"
    /\ self.model_type = "rf-detr"
    /\ \E n \in 0..MaxQueries :
       \E pred_boxes \in [1..n -> QueryBoxes], pred_logits \in [1..n -> LogitRows] :
       \E orig_size \in OrigSizes, conf_thres \in ConfThresholds :
       \E argsort \in ArgSorts(RawScores(pred_logits)) :
          /\ call' = [op |-> "predict", orig_size |-> orig_size,
                      conf_thres |-> conf_thres, iou_thres |-> DEFAULT_IOU_THRES,
                      max_number_boxes |-> MAX_NUMBER_BOXES,
                      raw |-> [pred_boxes |-> pred_boxes,
                               pred_logits |-> pred_logits]]
          /\ ret' = predict(self, orig_size,
                            [pred_boxes |-> pred_boxes, pred_logits |-> pred_logits],
                            conf_thres, DEFAULT_IOU_THRES, argsort)
    /\ UNCHANGED <<self, proc, event, resp, trace, pool>>

\* detector._predict_rfdetr(image, conf_thres, max_number_boxes) called with a
\* box limit of its own.
CallPredictRfdetr ==
    /\ call.op = "none"
    /\ self.model_type = "rf-detr"
    /\ \E n \in 0..MaxQueries :
       \E pred_boxes \in [1..n -> QueryBoxes], pred_logits \in [1..n -> LogitRows] :
       \E orig_size \in {<<3, 2>>}, conf_thres \in {0, One \div 2} :
       \E max_number_boxes \in 1..(MaxQueries - 1) :
       \E argsort \in ArgSorts(RawScores(pred_logits)) :
          /\ call' = [op |-> "_predict_rfdetr", orig_size |-> orig_size,
                      conf_thres |-> conf_thres, iou_thres |-> DEFAULT_IOU_THRES,
                      max_number_boxes |-> max_number_boxes,
                      raw |-> [pred_boxes |-> pred_boxes,
                               pred_logits |-> pred_logits]]
          /\ ret' = predict_rfdetr(pred_boxes, pred_logits, orig_size,
                                   conf_thres, max_number_boxes, argsort)
    /\ UNCHANGED <<self, proc, event, resp, trace, pool>>

\* detector.predict(image, size, conf_thres, iou_thres) on a grid-anchor
\* detector, for any engine output of up to MaxAnchors anchors under every
\* pair of thresholds.
PredictYolov8 ==
    /\ call.op = "none"
    /\ self.model_type = "yolov8"
    /\ \E n \in 0..MaxAnchors :
       \E anchors \in [1..n -> Anchors], orig_size \in YoloSizes :
       \E conf_thres \in YoloConfThresholds, iou_thres \in {0, 250, One} :
          /\ call' = [op |-> "predict", orig_size |-> orig_size,
                      conf_thres |-> conf_thres, iou_thres |-> iou_thres,
                      raw |-> [anchors |-> anchors]]
          /\ ret' = predict(self, orig_size, [anchors |-> anchors],
                            conf_thres, iou_thres, <<>>)
    /\ UNCHANGED <<self, proc, event, resp, trace, pool>>

\* The same call with conf_thres = 0, so that the confidence filter keeps
\* every anchor, on an output of up to MaxCluster anchors of one class.
PredictYolov8Cluster ==
    /\ call.op = "none"
    /\ self.model_type = "yolov8"
    /\ \E n \in 0..MaxCluster :
       \E anchors \in [1..n -> ClusterAnchors], orig_size \in YoloSizes :
       \E iou_thres \in {250, 400} :
          /\ call' = [op |-> "predict", orig_size |-> orig_size,
                      conf_thres |-> 0, iou_thres |-> iou_thres,
                      raw |-> [anchors |-> anchors]]
          /\ ret' = predict(self, orig_size, [anchors |-> anchors],
                            0, iou_thres, <<>>)
    /\ UNCHANGED <<self, proc, event, resp, trace, pool>>

\* The caller takes the result; the detector is ready for the next call.
Return ==
    /\ call.op # "none"
    /\ call' = [op |-> "none"]
    /\ ret' = [kind |-> "none"]
    /\ UNCHANGED <<self, proc, event, resp, trace, pool>>

NextRfdetr == PredictRfdetr \/ CallPredictRfdetr \/ Return

NextYolov8 == PredictYolov8 \/ PredictYolov8Cluster \/ Return

SpecRfdetr == InitRfdetr /\ [][NextRfdetr]_vars

SpecYolov8 == InitYolov8 /\ [][NextYolov8]_vars

\* Both detector families.
Init == InitRfdetr \/ InitYolov8

Next ==
    \/ PredictRfdetr \/ CallPredictRfdetr
    \/ PredictYolov8 \/ PredictYolov8Cluster
    \/ Return

Spec == Init /\ [][Next]_vars

\* result.to_dict_list() on the DetectionResult a call of predict returned,
\* as detect does at line 106 of app.py.
ToDictList ==
    /\ call.op \in {"predict", "_predict_rfdetr"}
    /\ ret.kind = "DetectionResult"
    /\ call' = [op |-> "to_dict_list", result |-> ret]
    /\ ret' = [kind |-> "list", value |-> to_dict_list(ret)]
    /\ UNCHANGED <<self, proc, event, resp, trace, pool>>

NextToDictList == Next \/ ToDictList

SpecToDictList == Init /\ [][NextToDictList]_vars

(***************************************************************************)
(* lambda_handler.  One invocation is one step: the process handles one    *)
(* event at a time, and the detector and the class mapper it has loaded    *)
(* stay cached for the invocations that follow.                            *)
(***************************************************************************)
NoDetector == [model_type |-> "none", input_width |-> 0, input_height |-> 0]

ModelPaths == {"RF-DETR-nano.onnx", "yolov8n.onnx"}

\* "rf-detr" if "rf-detr" in MODEL_PATH.lower() else "yolov8"
ModelTypeOf(model_path) ==
    IF model_path \in {"RF-DETR-nano.onnx"} THEN "rf-detr" ELSE "yolov8"

\* The names of coco.yaml, by class index.
ClassNames == (0 :> "person") @@ (1 :> "bicycle")

\* CocoClassMapper.map_class_names
map_class_names(detections) ==
    [i \in DOMAIN detections |->
        [bbox       |-> detections[i].bbox,
         score      |-> detections[i].score,
         class_id   |-> detections[i].class_id,
         class_name |-> IF detections[i].class_id - 1 \in DOMAIN ClassNames
                        THEN ClassNames[detections[i].class_id - 1]
                        ELSE "Unknown"]]

\* What the inference engine may return for one image: no query or one
\* query (no anchor or one anchor), or "raise" when the run fails.
EngineOutputs(model_type) ==
    IF model_type = "rf-detr"
    THEN {[pred_boxes |-> <<>>, pred_logits |-> <<>>]}
         \cup {[pred_boxes |-> <<b>>, pred_logits |-> <<l>>] :
                  b \in QueryBoxes, l \in LogitRows}
    ELSE {[anchors |-> <<>>]} \cup {[anchors |-> <<a>>] : a \in Anchors}

\* What happens around an invocation that the handler does not decide, env:
\* whether the model file loads (model_ok), whether the engine runs
\* (engine_ok) and what it returns (raw), the permutation np.argsort returns
\* (argsort), and whether coco.yaml loads (yaml_ok).
ArgSortsOf(model_type, raw) ==
    IF model_type = "rf-detr" THEN ArgSorts(RawScores(raw.pred_logits))
    ELSE {<<>>}

\* The outcome of a function: a returned value or a raised exception, with
\* the state the function leaves behind.
Outcome(kind, value, exc, slf, mapper, cl, rt, constructed, inference) ==
    [kind |-> kind, value |-> value, exc |-> exc, self |-> slf,
     mapper |-> mapper, call |-> cl, ret |-> rt,
     constructed |-> constructed, inference |-> inference]

NoCall == [op |-> "none"]

NoRet == [kind |-> "none"]

\* detect(body), lines 55-118, on the cached detector slf (NoDetector when
\* none is cached) and with the class mapper cached or not.
detect(body, slf, mapper, model_path, env) ==
    LET conf_thres == DictGet(body, "conf_thres", JNum(DEFAULT_CONF_THRES)).n
        iou_thres  == DictGet(body, "iou_thres", JNum(DEFAULT_IOU_THRES)).n
        img        == ImageOpen(body["image"])
        detector   == IF slf # NoDetector THEN slf
                      ELSE NewDetector(ModelTypeOf(model_path))
        cl         == [op |-> "predict", orig_size |-> img.size,
                       conf_thres |-> conf_thres, iou_thres |-> iou_thres,
                       max_number_boxes |-> MAX_NUMBER_BOXES, raw |-> env.raw]
        result     == predict(detector, img.size, env.raw, conf_thres,
                              iou_thres, env.argsort)
    IN  IF body["image"] = Absent
        THEN Outcome("raise", <<>>, "'image'", slf, mapper, NoCall, NoRet,
                     FALSE, FALSE)
        ELSE IF ~img.ok
        THEN Outcome("raise", <<>>, img.exc, slf, mapper, NoCall, NoRet,
                     FALSE, FALSE)
        ELSE IF slf = NoDetector /\ ~env.model_ok
        THEN Outcome("raise", <<>>, "Failed to load ONNX model", slf, mapper,
                     NoCall, NoRet, TRUE, FALSE)
        ELSE IF ~env.engine_ok
        THEN Outcome("raise", <<>>, "inference failed", detector, mapper,
                     cl, Raised("inference failed"), slf = NoDetector, TRUE)
        ELSE IF result.kind = "raise"
        THEN Outcome("raise", <<>>, result.exc, detector, mapper, cl, result,
                     slf = NoDetector, TRUE)
        ELSE IF ~mapper /\ ~env.yaml_ok
        THEN Outcome("raise", <<>>, "No such file or directory: 'coco.yaml'",
                     detector, mapper, cl, result, slf = NoDetector, TRUE)
        ELSE Outcome("return", map_class_names(to_dict_list(result)), "",
                     detector, TRUE, cl, result, slf = NoDetector, TRUE)

\* The bodies of the events.  text is the body string, or names the case:
\* the event has no body key, the body is None, or the body is the JSON text
\* of an object, whose members are fields.
EmptyObject == [k \in Range(RuleKeys) |-> Absent]

EventBody(t, text, fields) == [t |-> t, text |-> text, fields |-> fields]

ImageValues ==
    {Absent, JNull, JStr("<base64 of a 3x2 JPEG>"), JStr("not_an_image"),
     JNum(123000)}

ThresholdValues ==
    {Absent, JNull, JNum(-100), JNum(600), JNum(One), JNum(1500),
     JStr("not_a_float"), JStr("0.5"), JBool(TRUE), JList}

SaveImageValues ==
    {Absent, JNull, JBool(TRUE), JBool(FALSE), JStr("not_a_boolean"), JNum(One)}

IouValues ==
    {Absent, JNull, JNum(-100), JNum(400), JStr("not_a_float"), JList}

ObjectBodies ==
    [image : ImageValues, conf_thres : ThresholdValues,
     iou_thres : IouValues, save_image : SaveImageValues]

\* The object bodies sent along with OPTIONS and GET requests.
FewObjectBodies ==
    {fields \in ObjectBodies :
        /\ fields.image \in {Absent, JStr("<base64 of a 3x2 JPEG>")}
        /\ fields.conf_thres \in {Absent, JNum(1500)}
        /\ fields.iou_thres = Absent
        /\ fields.save_image = Absent}

OtherBodies ==
    {EventBody("absent", "", EmptyObject), EventBody("None", "", EmptyObject)}
    \cup {EventBody("str", text, EmptyObject) :
             text \in {"", "invalid json", "{\"image\": ", "[]", "null", "{}"}}

HttpMethods == {"OPTIONS", "GET", "POST", "PUT"}

\* The methods whose events reach the body.
BodyMethods == HttpMethods \ {"OPTIONS", "GET"}

\* json.loads(event.get("body", "{}"))
json_loads(body) ==
    CASE body.t = "absent" -> [kind |-> "dict", fields |-> EmptyObject, exc |-> ""]
      [] body.t = "None"   ->
            [kind |-> "raise", fields |-> EmptyObject, exc |-> "TypeError"]
      [] body.t = "object" -> [kind |-> "dict", fields |-> body.fields, exc |-> ""]
      [] body.t = "str" /\ body.text = "{}" ->
            [kind |-> "dict", fields |-> EmptyObject, exc |-> ""]
      [] body.t = "str" /\ body.text = "[]" ->
            [kind |-> "list", fields |-> EmptyObject, exc |-> ""]
      [] body.t = "str" /\ body.text = "null" ->
            [kind |-> "NoneType", fields |-> EmptyObject, exc |-> ""]
      [] OTHER ->
            [kind |-> "raise", fields |-> EmptyObject, exc |-> "JSONDecodeError"]

Response(statusCode, headers, key, text, exc, detections) ==
    [statusCode |-> statusCode, headers |-> headers,
     body |-> [key |-> key, text |-> text, exc |-> exc,
               detections |-> detections]]

\* The exception leaves the wrapped function: there is no response.
api_error_handler_reraise(exc) ==
    Response(0, "none", "raise", "", exc, <<>>)

\* The response api_error_handler makes of an exception, lines 187-192.
api_error_handler(exc) ==
    Response(500, "none", "message", "An error occurred: ", exc, <<>>)

\* raised is the text of the exception that left lambda_handler, "" when it
\* returned.
Trace(parsed, validated, detected, constructed, inference, raised) ==
    [parsed |-> parsed, validate_body |-> validated, detect |-> detected,
     constructed |-> constructed, inference |-> inference, raised |-> raised]

\* A comparison of the method that is never true.
MethodIsNever(ev, method) == FALSE

\* event.get("httpMethod") == method, lines 208 and 216.
MethodIs(ev, method) == ev.httpMethod = method

\* The process is between invocations.
HandlerReady == event.httpMethod = "none"

\* lambda_handler(event, context) up to the call of detect: lines 208-238.
\* "detect" in the result says that the body was accepted.
lambda_handler(ev) ==
    LET parsed == json_loads(ev.body)
        valid  == validate_body(parsed.fields)
        Raise(tr, exc) ==
            [next |-> "return",
             trace |-> [tr EXCEPT !.raised = exc],
             body |-> EmptyObject, resp |-> api_error_handler(exc)]
    IN  IF MethodIs(ev, "OPTIONS")
        THEN [next |-> "return",
              trace |-> Trace(FALSE, FALSE, FALSE, FALSE, FALSE, ""),
              body |-> EmptyObject,
              resp |-> Response(200, "cors", "message",
                                "CORS preflight check successful", "", <<>>)]
        ELSE IF MethodIs(ev, "GET")
        THEN [next |-> "return",
              trace |-> Trace(FALSE, FALSE, FALSE, FALSE, FALSE, ""),
              body |-> EmptyObject,
              resp |-> Response(200, "cors+content-type", "GET_RESPONSE", "",
                                "", <<>>)]
        ELSE IF parsed.kind = "raise" /\ parsed.exc = "JSONDecodeError"
        THEN [next |-> "return",
              trace |-> Trace(FALSE, FALSE, FALSE, FALSE, FALSE, ""),
              body |-> EmptyObject,
              resp |-> Response(400, "cors", "error",
                                "Invalid JSON in request body", "", <<>>)]
        ELSE IF parsed.kind = "raise"
        THEN Raise(Trace(FALSE, FALSE, FALSE, FALSE, FALSE, ""),
                   "the JSON object must be str, bytes or bytearray, not NoneType")
        ELSE IF parsed.kind = "list"
        THEN Raise(Trace(TRUE, TRUE, FALSE, FALSE, FALSE, ""),
                   "'list' object has no attribute 'get'")
        ELSE IF parsed.kind = "NoneType"
        THEN Raise(Trace(TRUE, TRUE, FALSE, FALSE, FALSE, ""),
                   "'NoneType' object has no attribute 'get'")
        ELSE IF ~valid.is_valid
        THEN [next |-> "return",
              trace |-> Trace(TRUE, TRUE, FALSE, FALSE, FALSE, ""),
              body |-> EmptyObject,
              resp |-> Response(400, "cors", "error", valid.error, "", <<>>)]
        ELSE [next |-> "detect",
              trace |-> Trace(TRUE, TRUE, TRUE, FALSE, FALSE, ""),
              body |-> valid.validated, resp |-> NoResponse]

\* One invocation that ends before detect.
Handle(ev) ==
    LET h == lambda_handler(ev)
    IN  /\ h.next = "return"
        /\ event' = ev
        /\ resp' = h.resp
        /\ trace' = h.trace
        /\ UNCHANGED <<self, call, ret, proc, pool>>

\* One invocation that calls detect, lines 240-245, in the environment env.
HandleDetect(ev) ==
    LET h == lambda_handler(ev)
    IN  /\ h.next = "detect"
        /\ \E model_ok, engine_ok, yaml_ok \in BOOLEAN :
           \E raw \in EngineOutputs(ModelTypeOf(proc.MODEL_PATH)) :
           \E argsort \in ArgSortsOf(ModelTypeOf(proc.MODEL_PATH), raw) :
              LET d == detect(h.body, self, proc.mapper, proc.MODEL_PATH,
                              [model_ok |-> model_ok, engine_ok |-> engine_ok,
                               raw |-> raw, argsort |-> argsort,
                               yaml_ok |-> yaml_ok])
              IN  /\ event' = ev
                  /\ resp' = IF d.kind = "raise" THEN api_error_handler(d.exc)
                             ELSE Response(200, "cors", "detections", "", "",
                                           d.value)
                  /\ trace' = Trace(TRUE, TRUE, TRUE, d.constructed, d.inference,
                                     IF d.kind = "raise" THEN d.exc ELSE "")
                  /\ self' = d.self
                  /\ proc' = [proc EXCEPT !.mapper = d.mapper]
                  /\ call' = d.call
                  /\ ret' = d.ret
                  /\ UNCHANGED pool

\* An OPTIONS or GET event, with any body.
HandlePreflightOrGet ==
    /\ HandlerReady
    /\ \E method \in HttpMethods \ BodyMethods :
       \E body \in OtherBodies
                   \cup {EventBody("object", "", f) : f \in FewObjectBodies} :
          Handle([httpMethod |-> method, body |-> body])

\* An event whose body is not the text of a JSON object.
HandleOther ==
    /\ HandlerReady
    /\ \E method \in BodyMethods, body \in OtherBodies :
          Handle([httpMethod |-> method, body |-> body])

\* An event whose body is a JSON object that validate_body rejects.
HandleRejected ==
    /\ HandlerReady
    /\ \E method \in BodyMethods, fields \in ObjectBodies :
          Handle([httpMethod |-> method,
                  body |-> EventBody("object", "", fields)])

\* An event whose body validate_body accepts.
HandleAccepted ==
    /\ HandlerReady
    /\ \E method \in BodyMethods, fields \in ObjectBodies :
          HandleDetect([httpMethod |-> method,
                        body |-> EventBody("object", "", fields)])

\* The response is delivered; the process waits for the next event.
HandlerReturn ==
    /\ ~HandlerReady
    /\ event' = NoEvent
    /\ resp' = NoResponse
    /\ trace' = NoTrace
    /\ call' = NoCall
    /\ ret' = NoRet
    /\ UNCHANGED <<self, proc, pool>>

InitHandler ==
    /\ self = NoDetector
    /\ proc \in [MODEL_PATH : ModelPaths, mapper : {FALSE}]
    /\ call = NoCall
    /\ ret = NoRet
    /\ event = NoEvent
    /\ resp = NoResponse
    /\ trace = NoTrace
    /\ pool = NoPool

NextHandler ==
    \/ HandlePreflightOrGet \/ HandleOther
    \/ HandleRejected \/ HandleAccepted
    \/ HandlerReturn

SpecHandler == InitHandler /\ [][NextHandler]_vars

(***************************************************************************)
(* OnnxDetector.__init__ and calls on the detector it makes, for any       *)
(* family tag, device and model file.                                      *)
(***************************************************************************)
\* A dimension of the model's input that has no fixed size: the engine
\* reports a name or None for it, not a number.
Dynamic == -1

\* The tags a configuration may carry.
FamilyTags == {"yolov8", "YOLOv8", "rf-detr", "RF-DETR", "sam", ""}

\* str.lower() on the tags.
Lower(tag) ==
    CASE tag = "YOLOv8"  -> "yolov8"
      [] tag = "RF-DETR" -> "rf-detr"
      [] OTHER           -> tag

Devices == {"cpu", "gpu", "tpu"}

\* The shapes the first input of a model may declare; <<>> stands for an
\* input without a shape attribute.
InputShapes ==
    {<<>>, <<3>>, <<1, 3, 384>>, <<1, 3, 384, 384>>, <<1, 3, 320, 480>>,
     <<1, 3, Dynamic, Dynamic>>, <<Dynamic, 3, 640, 640>>,
     <<1, 3, 384, Dynamic>>, <<1, 1, 3, 384, 384>>}

\* What ort.InferenceSession gives for a model file: it loads or not, and
\* the shape of its first input.
Sessions == [loads : BOOLEAN, shape : InputShapes]

\* OnnxDetector.__init__, lines 45-74: the detector, or the exception raised.
OnnxDetector(model_path, model_type, device, session) ==
    IF device \notin {"cpu", "gpu"} THEN Raised("ValueError")
    ELSE IF ~session.loads THEN Raised("RuntimeError")
    ELSE IF Len(session.shape) > 4 THEN Raised("RuntimeError")
    ELSE [kind |-> "OnnxDetector", model_path |-> model_path,
          model_type |-> Lower(model_type),
          input_width  |-> IF Len(session.shape) >= 4 THEN session.shape[4]
                           ELSE DEFAULT_INPUT_SIZE,
          input_height |-> IF Len(session.shape) >= 4 THEN session.shape[3]
                           ELSE DEFAULT_INPUT_SIZE,
          session |-> session]

\* The exception of a failed session.run.
EngineError == "RuntimeException"

\* How far a call gets, lines 96-103 and the preparers: "dispatch" when the
\* family is not supported, "prepare" when the input sizes are no numbers
\* and the preparer raises, "run" when the engine is run.
Reached(slf) ==
    IF slf.model_type \notin {"yolov8", "rf-detr"} THEN "dispatch"
    ELSE IF Dynamic \in {slf.input_width, slf.input_height} THEN "prepare"
    ELSE "run"

\* detector(image, size, conf_thres, iou_thres), lines 76-103, with the
\* engine's part: engine.ok says whether session.run returns, engine.raw
\* what it returns.
DetectorCall(slf, orig_size, engine, conf_thres, iou_thres, argsort) ==
    IF Reached(slf) = "prepare" THEN Raised("TypeError")
    ELSE IF Reached(slf) = "run" /\ ~engine.ok THEN Raised(EngineError)
    ELSE predict(slf, orig_size, engine.raw, conf_thres, iou_thres, argsort)

\* A predict that keeps its size argument as the detector's input size.
predict_self_resized(slf, size) ==
    [slf EXCEPT !.input_width = size, !.input_height = size]

\* The detector's fields after a call: predict, _predict_yolov8,
\* _predict_rfdetr and the preparers (lines 88-235) assign to no attribute
\* of self.
predict_self(slf, size) == slf

\* OnnxDetector(model_path, model_type, device) in a process without one.
Construct ==
    /\ call = NoCall
    /\ self = NoDetector
    /\ \E model_path \in ModelPaths, model_type \in FamilyTags :
       \E device \in Devices, session \in Sessions :
       \E made \in {OnnxDetector(model_path, model_type, device, session)} :
          /\ call' = [op |-> "__init__", model_path |-> model_path,
                      model_type |-> model_type, device |-> device,
                      session |-> session]
          /\ ret' = made
          /\ self' = IF made.kind = "raise" THEN self ELSE made
    /\ UNCHANGED <<proc, event, resp, trace, pool>>

\* A call on the detector of the process, of any family.
CallDetector ==
    /\ call = NoCall
    /\ self # NoDetector
    /\ \E ok \in BOOLEAN, raw \in EngineOutputs(self.model_type) :
       \E conf_thres \in {One \div 2, One} :
       \E argsort \in ArgSortsOf(self.model_type, raw) :
          /\ call' = [op |-> "predict", orig_size |-> <<3, 2>>,
                      conf_thres |-> conf_thres,
                      iou_thres |-> DEFAULT_IOU_THRES,
                      max_number_boxes |-> MAX_NUMBER_BOXES,
                      engine_ok |-> ok, raw |-> raw, argsort |-> argsort,
                      reached |-> Reached(self),
                      runs |-> IF Reached(self) = "run" THEN 1 ELSE 0]
          /\ ret' = DetectorCall(self, <<3, 2>>, [ok |-> ok, raw |-> raw],
                                 conf_thres, DEFAULT_IOU_THRES, argsort)
    /\ self' = predict_self(self, DEFAULT_INPUT_SIZE)
    /\ UNCHANGED <<proc, event, resp, trace, pool>>

\* The detector is dropped; the process may make another.
Discard ==
    /\ call = NoCall
    /\ self # NoDetector
    /\ self' = NoDetector
    /\ UNCHANGED <<call, ret, proc, event, resp, trace, pool>>

InitDetector ==
    /\ self = NoDetector
    /\ call = NoCall
    /\ ret = NoRet
    /\ HandlerIdle

NextDetector == Construct \/ CallDetector \/ Return \/ Discard

SpecDetector == InitDetector /\ [][NextDetector]_vars

(***************************************************************************)
(* get_detector and get_class_mapper under several threads.  Each is a     *)
(* function wrapped by lru_cache(maxsize=1): a call looks the cache up,    *)
(* on a miss calls the wrapped function without holding any lock, and      *)
(* stores the result unless the cache was filled in the meantime.  The     *)
(* instances are numbered in the order their constructors complete; 0 is   *)
(* no instance.                                                            *)
(***************************************************************************)
NumThreads == 2

MaxCalls == 2

Threads == 1..NumThreads

\* One thread's step from pc to next, with the pool fields in changes.
Step(t, next, changes) ==
    /\ pool' = [changes EXCEPT !.pc[t] = next]
    /\ UNCHANGED <<self, call, ret, proc, event, resp, trace>>

\* detect(body) is entered, line 55.
StartDetect(t) ==
    /\ pool.pc[t] = "idle"
    /\ pool.calls[t] < MaxCalls
    /\ Step(t, "get_detector",
            [pool EXCEPT !.calls[t] = @ + 1, !.detector[t] = 0, !.mapper[t] = 0])

\* get_detector(), line 99: the cache lookup.
DetectorLookup(t) ==
    /\ pool.pc[t] = "get_detector"
    /\ IF pool.cached_detector # 0
       THEN Step(t, "inference",
                 [pool EXCEPT !.detector[t] = pool.cached_detector])
       ELSE Step(t, "OnnxDetector", pool)

\* OnnxDetector(...), lines 39-42: the model loads, or the constructor
\* raises and detect ends.
DetectorConstruct(t) ==
    /\ pool.pc[t] = "OnnxDetector"
    /\ \/ Step(t, "store_detector",
               [pool EXCEPT !.detectors = @ + 1,
                            !.detector[t] = pool.detectors + 1])
       \/ Step(t, "idle", pool)

\* The result is stored unless another call has stored one.
DetectorStore(t) ==
    /\ pool.pc[t] = "store_detector"
    /\ Step(t, "inference",
            [pool EXCEPT !.cached_detector =
                IF @ = 0 THEN pool.detector[t] ELSE @])

\* detector(img, ...), lines 101-106: returns, or raises and detect ends.
Inference(t) ==
    /\ pool.pc[t] = "inference"
    /\ \/ Step(t, "get_class_mapper", pool)
       \/ Step(t, "idle", pool)

\* get_class_mapper(), line 114: the cache lookup.
MapperLookup(t) ==
    /\ pool.pc[t] = "get_class_mapper"
    /\ IF pool.cached_mapper # 0
       THEN Step(t, "idle", [pool EXCEPT !.mapper[t] = pool.cached_mapper])
       ELSE Step(t, "CocoClassMapper", pool)

\* CocoClassMapper(...), lines 50-52: coco.yaml loads, or the constructor
\* raises and detect ends.
MapperConstruct(t) ==
    /\ pool.pc[t] = "CocoClassMapper"
    /\ \/ Step(t, "store_mapper",
               [pool EXCEPT !.mappers = @ + 1, !.mapper[t] = pool.mappers + 1])
       \/ Step(t, "idle", pool)

\* The result is stored unless another call has stored one; detect returns.
MapperStore(t) ==
    /\ pool.pc[t] = "store_mapper"
    /\ Step(t, "idle",
            [pool EXCEPT !.cached_mapper = IF @ = 0 THEN pool.mapper[t] ELSE @])

InitThreads ==
    /\ self = NoDetector
    /\ proc \in [MODEL_PATH : ModelPaths, mapper : {FALSE}]
    /\ call = NoCall
    /\ ret = NoRet
    /\ event = NoEvent
    /\ resp = NoResponse
    /\ trace = NoTrace
    /\ pool = [pc |-> [t \in Threads |-> "idle"],
               calls |-> [t \in Threads |-> 0],
               detector |-> [t \in Threads |-> 0],
               mapper |-> [t \in Threads |-> 0],
               detectors |-> 0, cached_detector |-> 0,
               mappers |-> 0, cached_mapper |-> 0]

NextThreads ==
    \E t \in Threads :
        \/ StartDetect(t)
        \/ DetectorLookup(t) \/ DetectorConstruct(t) \/ DetectorStore(t)
        \/ Inference(t)
        \/ MapperLookup(t) \/ MapperConstruct(t) \/ MapperStore(t)

SpecThreads == InitThreads /\ [][NextThreads]_vars

(***************************************************************************)
(* The two input preparers on their own.  An image is its size and one     *)
(* colour value in every pixel; a prepared input is described by the size  *)
(* of its canvas, the size of the resized image and that colour, and its   *)
(* cells are read with CanvasCell.                                         *)
(***************************************************************************)
MaxSide == 6

\* np.full((target_h, target_w, 3), 114, ...), line 154.
PAD_VALUE == 114

PixelValues == {0, 255}

\* The modes of the images PIL opens: three channels, four channels, and a
\* single band without a channel axis.
ImageModes == {"RGB", "RGBA", "L"}

\* The number of channels np.array gives an image of the mode; 0 when the
\* array has no channel axis.
Channels(mode) ==
    CASE mode = "RGB"  -> 3
      [] mode = "RGBA" -> 4
      [] OTHER         -> 0

\* np.array(img).shape, lines 160 and 226: (height, width, channels), or
\* (height, width) for a single band.
ArrayShape(img) ==
    IF Channels(img.mode) = 0 THEN <<img.size[2], img.size[1]>>
    ELSE <<img.size[2], img.size[1], Channels(img.mode)>>

\* The k-th dimension of a shape counted from the last, 1 when it has none:
\* numpy lines shapes up from the right.
DimFromEnd(shape, k) == IF k > Len(shape) THEN 1 ELSE shape[Len(shape) + 1 - k]

\* numpy can assign an array of shape src to a slice of shape dst (line 161).
CanAssign(dst, src) ==
    /\ Len(src) <= Len(dst)
    /\ \A k \in 1..Len(src) : DimFromEnd(src, k) \in {1, DimFromEnd(dst, k)}

\* numpy can combine arrays of shapes a and b element by element (line 227).
Broadcastable(a, b) ==
    \A k \in 1..Max(Len(a), Len(b)) :
        \/ DimFromEnd(a, k) = DimFromEnd(b, k)
        \/ DimFromEnd(a, k) = 1
        \/ DimFromEnd(b, k) = 1

\* The shape of the combination.
BroadcastShape(a, b) ==
    LET n == Max(Len(a), Len(b))
    IN  [i \in 1..n |-> Max(DimFromEnd(a, n + 1 - i), DimFromEnd(b, n + 1 - i))]

\* Image.resize, lines 148-150 and 223: a size with a side below 1 is
\* refused; the mode is kept.
Resize(size, mode, pix) ==
    IF size[1] < 1 \/ size[2] < 1
    THEN Raised("ValueError")
    ELSE [kind |-> "Image", size |-> size, mode |-> mode, pix |-> pix]

\* inp[:scaled_h, :scaled_w, :] = npy_img, line 161, can be carried out.
Assigned(inp, scaled_size, npy_shape) ==
    CanAssign(<<Min(scaled_size[2], inp[1]), Min(scaled_size[1], inp[2]), inp[3]>>, npy_shape)

\* OnnxDetector._prepare_input, lines 132-168: the tensor before the
\* division by 255, with the two sizes returned beside it.
PrepareInput(orig_size, mode, pix, target_w, target_h) ==
    LET meta       == prepare_input(orig_size, target_w, target_h)
        scaled_img == Resize(meta.scaled_size, mode, pix)
        inp        == <<target_h, target_w, 3>>
    IN  IF scaled_img.kind = "raise" THEN scaled_img
        ELSE IF ~Assigned(inp, meta.scaled_size, ArrayShape(scaled_img))
        THEN Raised("ValueError")
        ELSE [kind        |-> "input",
              shape       |-> <<1, inp[3], inp[1], inp[2]>>,
              dtype       |-> "float32",
              canvas      |-> <<target_w, target_h>>,
              orig_size   |-> meta.orig_size,
              scaled_size |-> meta.scaled_size,
              pix         |-> scaled_img.pix,
              pad         |-> PAD_VALUE]

\* inp[:scaled_h, :scaled_w, :] = npy_img over the canvas of 114, lines
\* 154-161: the cell of a prepared input at a row and a column.
CanvasCell(inp, row, col) ==
    IF row < inp.scaled_size[2] /\ col < inp.scaled_size[1] THEN inp.pix ELSE inp.pad

\* OnnxDetector._prepare_input_rfdetr, lines 217-235: the image is resized
\* to the target size and nothing is padded; MEANS and STDS have shape (3,),
\* and transpose(2, 0, 1) needs three axes.
prepare_input_rfdetr(orig_size, mode, pix, target_w, target_h) ==
    LET img_resized == Resize(<<target_w, target_h>>, mode, pix)
        img_np      == BroadcastShape(ArrayShape(img_resized), <<3>>)
    IN  IF img_resized.kind = "raise" THEN img_resized
        ELSE IF ~Broadcastable(ArrayShape(img_resized), <<3>>)
        THEN Raised("ValueError")
        ELSE IF Len(img_np) # 3
        THEN Raised("ValueError")
        ELSE [kind        |-> "input",
              shape       |-> <<1, img_np[3], img_np[1], img_np[2]>>,
              dtype       |-> "float32",
              canvas      |-> <<target_w, target_h>>,
              orig_size   |-> orig_size,
              scaled_size |-> img_resized.size,
              pix         |-> img_resized.pix,
              pad         |-> PAD_VALUE]

SmallSizes == (1..MaxSide) \X (1..MaxSide)

SmallTargets == {<<2, 2>>, <<4, 4>>, <<8, 4>>}

CameraSizes == {<<1280, 720>>, <<640, 480>>, <<1280, 1>>}

CameraTargets == {<<DEFAULT_INPUT_SIZE, DEFAULT_INPUT_SIZE>>}

PrepareCall(op, orig_size, mode, pix, target) ==
    [op |-> op, orig_size |-> orig_size, mode |-> mode, pix |-> pix, target |-> target]

\* _prepare_input on a small image and a small target.
PrepareLetterbox ==
    /\ call.op = "none"
    /\ \E orig_size \in SmallSizes, mode \in ImageModes :
       \E pix \in PixelValues, target \in SmallTargets :
           /\ call' = PrepareCall("_prepare_input", orig_size, mode, pix, target)
           /\ ret' = PrepareInput(orig_size, mode, pix, target[1], target[2])
    /\ UNCHANGED <<self, proc, event, resp, trace, pool>>

\* _prepare_input on a camera frame and the default target.
PrepareLetterboxCamera ==
    /\ call.op = "none"
    /\ \E orig_size \in CameraSizes, mode \in ImageModes :
       \E pix \in PixelValues, target \in CameraTargets :
           /\ call' = PrepareCall("_prepare_input", orig_size, mode, pix, target)
           /\ ret' = PrepareInput(orig_size, mode, pix, target[1], target[2])
    /\ UNCHANGED <<self, proc, event, resp, trace, pool>>

\* _prepare_input_rfdetr on either kind of image.
PrepareRfdetr ==
    /\ call.op = "none"
    /\ \E orig_size \in SmallSizes \cup CameraSizes, mode \in ImageModes :
       \E pix \in PixelValues, target \in SmallTargets \cup CameraTargets :
           /\ call' = PrepareCall("_prepare_input_rfdetr", orig_size, mode, pix, target)
           /\ ret' = prepare_input_rfdetr(orig_size, mode, pix, target[1], target[2])
    /\ UNCHANGED <<self, proc, event, resp, trace, pool>>

InitPrepare ==
    /\ self = NoDetector
    /\ call = NoCall
    /\ ret = NoRet
    /\ HandlerIdle

NextPrepare == PrepareLetterbox \/ PrepareLetterboxCamera \/ PrepareRfdetr \/ Return

SpecPrepare == InitPrepare /\ [][NextPrepare]_vars

(***************************************************************************)
(* Claims about the query-transformer decoder.                             *)
(***************************************************************************)
Returned == call.op # "none" /\ ret.kind = "DetectionResult"

RfdetrReturned == Returned /\ self.model_type = "rf-detr"

\* The scores of the queries of the last call, before sorting.
CallScores == RawScores(call.raw.pred_logits)

\* The number of queries whose score is strictly greater than conf_thres.
CountAbove ==
    Cardinality({q \in DOMAIN CallScores : CallScores[q] > call.conf_thres})

\* C1: the query-transformer decoder returns at most min(max_number_boxes,
\* number of queries with score > conf_thres) detections (max_number_boxes is
\* 300 in every call made through predict), and the returned scores are in
\* non-increasing order.
C1_TopKSorted ==
    RfdetrReturned =>
        /\ call.op = "predict" => call.max_number_boxes = MAX_NUMBER_BOXES
        /\ Len(ret.scores) <= Min(call.max_number_boxes, CountAbove)
        /\ \A i \in 1..(Len(ret.scores) - 1) : ret.scores[i] >= ret.scores[i + 1]

\* C1 witness: two queries given in ascending score order, both above the
\* threshold, and a box limit of 1: the one returned is the higher-scoring.
C1_Witness ==
    /\ RfdetrReturned
    /\ call.max_number_boxes = 1
    /\ CallScores = <<One \div 2, One>>
    /\ call.conf_thres = 0
    /\ ret.scores = <<One>>

\* C2: every returned score lies in [conf_thres, 1.0], for conf_thres in
\* [0, 1].
C2_ScoreRange ==
    (Returned /\ call.conf_thres \in 0..One) =>
        \A i \in 1..Len(ret.scores) :
            call.conf_thres <= ret.scores[i] /\ ret.scores[i] <= One

\* C2 witness: a query whose score equals the threshold is dropped and one
\* above it is returned.
C2_Witness ==
    /\ RfdetrReturned
    /\ call.op = "predict"
    /\ call.conf_thres = One \div 2
    /\ CallScores = <<One \div 2, One>>
    /\ ret.scores = <<One>>

BoxOrdered(b) == RatLE(b[1], b[3]) /\ RatLE(b[2], b[4])

\* C3 (as claimed): every returned box has xmin <= xmax and ymin <= ymax,
\* as floats and after the integer conversion of to_dict_list.
C3_BoxOrdered ==
    Returned =>
        /\ \A i \in 1..Len(ret.boxes) : BoxOrdered(ret.boxes[i])
        /\ \A i \in 1..Len(ret.boxes) :
              /\ to_dict_list(ret)[i].bbox[1] <= to_dict_list(ret)[i].bbox[3]
              /\ to_dict_list(ret)[i].bbox[2] <= to_dict_list(ret)[i].bbox[4]

\* C4 (as claimed): every coordinate of every returned box is >= 0.
C4_BoxNonNegative ==
    Returned =>
        \A i \in 1..Len(ret.boxes) : \A k \in 1..4 : ret.boxes[i][k][1] >= 0

\* C5 (as claimed): predict never returns a DetectionResult for a conf_thres
\* or iou_thres outside [0, 1].
C5_RejectsOutOfRange ==
    (call.op = "predict"
        /\ (call.conf_thres \notin 0..One \/ call.iou_thres \notin 0..One))
    => ret.kind = "raise"

(***************************************************************************)
(* Claims about the grid-anchor decoder.                                   *)
(***************************************************************************)
YoloReturned == Returned /\ self.model_type = "yolov8"

\* The candidates of the last call and the indices non-maximum suppression
\* keeps of them.
CallCands == Candidates(call.raw.anchors, call.conf_thres)

CallKept == Nms(CallCands, call.iou_thres)

\* The candidates of class cl, as indices in input order.
ClassIdx(cands, cl) ==
    MaskIdx([i \in 1..Len(cands) |-> cands[i].class = cl], 1)

\* The candidates of class cl that are kept when suppression runs on the
\* candidates of that class alone.
KeptAmongOwnClass(cands, cl, iou_thres) ==
    LET idx == ClassIdx(cands, cl)
    IN  {idx[k] : k \in Range(Nms(Gather(cands, idx), iou_thres))}

\* C6: after non-maximum suppression with threshold iou_thres, the returned
\* detections are the kept candidates, and (1) every removed candidate has
\* IoU > iou_thres with a kept candidate of its class that has a higher score,
\* or an equal score and an earlier place in the input; (2) no two returned
\* detections of one class have IoU > iou_thres; (3) a candidate is kept
\* exactly when it is kept among the candidates of its own class alone.
C6_Nms ==
    YoloReturned =>
        \A cands \in {CallCands} : \A kept \in {Nms(cands, call.iou_thres)} :
            /\ ret.scores = [i \in 1..Len(kept) |-> cands[kept[i]].score]
            /\ ret.labels = [i \in 1..Len(kept) |-> cands[kept[i]].class]
            /\ \A c \in (1..Len(cands)) \ Range(kept) :
                  \E k \in Range(kept) :
                     /\ cands[k].class = cands[c].class
                     /\ IouExceeds(cands[k].box, cands[c].box, call.iou_thres)
                     /\ \/ cands[k].score > cands[c].score
                        \/ cands[k].score = cands[c].score /\ k < c
            /\ \A i, j \in 1..Len(ret.boxes) :
                  (i # j /\ ret.labels[i] = ret.labels[j])
                     => ~IouExceeds(ret.boxes[i], ret.boxes[j], call.iou_thres)
            /\ \A cl \in Classes :
                  {c \in Range(kept) : cands[c].class = cl}
                     = KeptAmongOwnClass(cands, cl, call.iou_thres)

\* C6 witness: three candidates of which the first removes the second, and
\* the third is kept although the removed second comes before it and overlaps
\* it beyond the threshold.
C6_Witness ==
    /\ YoloReturned
    /\ Len(ret.scores) = 2
    /\ \E cands \in {CallCands} : \E kept \in {Nms(cands, call.iou_thres)} :
          /\ Len(cands) = 3
          /\ \E d \in (1..3) \ Range(kept) :
                \E k \in Range(kept) :
                   /\ cands[d].class = cands[k].class
                   /\ IouExceeds(cands[d].box, cands[k].box, call.iou_thres)
                   /\ \/ cands[d].score > cands[k].score
                      \/ cands[d].score = cands[k].score /\ d < k

\* The number of detections predict returns for the anchors, image and
\* conf_thres of the last call under each threshold of IouThresholds.
CountAt ==
    [t \in IouThresholds |->
        Len(predict(self, call.orig_size, call.raw, call.conf_thres, t, <<>>).scores)]

PostedObject == event.httpMethod = "POST" /\ event.body.t = "object"

\* The response is a 400 with this error, and detect was not called.
Answered400(error) ==
    /\ resp.statusCode = 400
    /\ resp.body.key = "error"
    /\ resp.body.text = error
    /\ ~trace.detect
    /\ ~trace.constructed
    /\ ~trace.inference

OutOfRange(value) ==
    ToFloat(value).ok /\ (ToFloat(value).v < 0 \/ ToFloat(value).v > One)

\* What is wrong with the value a body has under key: "" when nothing is.
\* A null is no value.
Defect(key, value) ==
    IF value \in {Absent, JNull}
    THEN IF key = "image" THEN "Missing 'image' in request body" ELSE ""
    ELSE CASE key = "image" ->
                 IF ImageOpen(value).ok THEN ""
                 ELSE "Invalid image data. Must be base64 encoded."
           [] key = "conf_thres" ->
                 IF ~ToFloat(value).ok
                 THEN "Invalid conf_thres. Must be a float between 0 and 1."
                 ELSE IF OutOfRange(value)
                 THEN "conf_thres must be between 0 and 1"
                 ELSE ""
           [] key = "iou_thres" ->
                 IF ~ToFloat(value).ok
                 THEN "Invalid iou_thres. Must be a float between 0 and 1."
                 ELSE IF OutOfRange(value)
                 THEN "iou_thres must be between 0 and 1"
                 ELSE ""
           [] key = "save_image" ->
                 IF value.t = "bool" THEN ""
                 ELSE "Invalid save_image. Must be a boolean."

\* The defect of the first of image, conf_thres, iou_thres, save_image that
\* has one.
FirstDefect(fields) ==
    LET order == <<"image", "conf_thres", "iou_thres", "save_image">>
        bad   == {i \in 1..4 : Defect(order[i], fields[order[i]]) # ""}
    IN  IF bad = {} THEN ""
        ELSE LET first == CHOOSE i \in bad : \A j \in bad : i <= j
             IN  Defect(order[first], fields[order[first]])

\* C8 as stated: a POST whose conf_thres or iou_thres converts to a number
\* outside [0,1] is answered 400 '<field> must be between 0 and 1'; one whose
\* threshold cannot be converted to a float, 400 'Invalid <field>. Must be a
\* float between 0 and 1.'; a non-boolean save_image, 400 'Invalid
\* save_image. Must be a boolean.'; an undecodable image, 400 'Invalid image
\* data. Must be base64 encoded.'; and detection is not run.  Each field is
\* taken by itself, whatever the other fields hold.
C8_EachInvalidField ==
    PostedObject =>
        \A fields \in {event.body.fields} :
            /\ OutOfRange(fields.conf_thres)
                  => Answered400("conf_thres must be between 0 and 1")
            /\ OutOfRange(fields.iou_thres)
                  => Answered400("iou_thres must be between 0 and 1")
            /\ (fields.conf_thres # Absent /\ ~ToFloat(fields.conf_thres).ok)
                  => Answered400("Invalid conf_thres. Must be a float between 0 and 1.")
            /\ (fields.iou_thres # Absent /\ ~ToFloat(fields.iou_thres).ok)
                  => Answered400("Invalid iou_thres. Must be a float between 0 and 1.")
            /\ (fields.save_image # Absent /\ fields.save_image.t # "bool")
                  => Answered400("Invalid save_image. Must be a boolean.")
            /\ (fields.image \notin {Absent, JNull} /\ ~ImageOpen(fields.image).ok)
                  => Answered400("Invalid image data. Must be base64 encoded.")

\* C8, amended: the fields are examined in the order image, conf_thres,
\* iou_thres, save_image, and a null counts as no value.  A POST of a JSON
\* object in which some field has a defect (image missing or undecodable, a
\* threshold that is not convertible or converts outside [0,1], save_image
\* not a boolean) is answered 400 with the error of the first such field,
\* and detection is not run; a POST in which no field has one reaches detect.
C8_FirstInvalidField ==
    PostedObject =>
        \A error \in {FirstDefect(event.body.fields)} :
            IF error # "" THEN Answered400(error) ELSE trace.detect

\* A POST with a good image, a conf_thres that is no float and an iou_thres
\* below 0 was answered with the error of conf_thres.
C8_Witness ==
    /\ PostedObject
    /\ ImageOpen(event.body.fields.image).ok
    /\ event.body.fields.conf_thres = JStr("not_a_float")
    /\ event.body.fields.iou_thres = JNum(-100)
    /\ Answered400("Invalid conf_thres. Must be a float between 0 and 1.")

\* C9: a POST whose parsed body has no image key, or a null image, is
\* answered 400 "Missing 'image' in request body" whatever the other fields
\* hold, and detection is not run.
C9_MissingImage ==
    (/\ event.httpMethod = "POST"
     /\ json_loads(event.body).kind = "dict"
     /\ json_loads(event.body).fields.image \in {Absent, JNull})
        => Answered400("Missing 'image' in request body")

\* A POST without image, with a conf_thres above 1 and a save_image that is
\* no boolean, was answered with the missing image.
C9_Witness ==
    /\ PostedObject
    /\ event.body.fields.image = Absent
    /\ event.body.fields.conf_thres = JNum(1500)
    /\ event.body.fields.save_image = JStr("not_a_boolean")
    /\ Answered400("Missing 'image' in request body")

\* C10: a request that is neither GET nor OPTIONS and whose body json.loads
\* cannot parse is answered 400 'Invalid JSON in request body'; it is never
\* answered 500 and reaches neither validate_body nor detect.
C10_MalformedBody ==
    (/\ event.httpMethod \in BodyMethods
     /\ json_loads(event.body).kind = "raise")
        => /\ resp.statusCode = 400
           /\ resp.body.key = "error"
           /\ resp.body.text = "Invalid JSON in request body"
           /\ ~trace.validate_body
           /\ ~trace.detect

\* The process has answered an event.
Handled == ~HandlerReady

\* C11: no exception leaves lambda_handler: whatever is raised inside it
\* (parsing a body that is no string, validate_body on a body that is no
\* object, the model load, the engine run, the class mapping) becomes a
\* response with statusCode 500 and the message 'An error occurred: ' followed
\* by the text of the exception; every response has statusCode 200, 400 or 500.
C11_NeverPropagates ==
    Handled =>
        /\ resp.statusCode \in {200, 400, 500}
        /\ ret.kind = "raise" => trace.raised = ret.exc
        /\ trace.raised # "" =>
              /\ resp.statusCode = 500
              /\ resp.body.key = "message"
              /\ resp.body.text = "An error occurred: "
              /\ resp.body.exc = trace.raised
        /\ trace.raised = "" => resp.statusCode \in {200, 400}

\* The engine failed during detect and the response is the 500 made of its
\* exception.
C11_Witness ==
    /\ Handled
    /\ trace.inference
    /\ ret.kind = "raise"
    /\ resp.statusCode = 500
    /\ resp.body.exc = ret.exc

\* C12: a GET is answered 200 with GET_RESPONSE and an OPTIONS 200, whatever
\* the body is (absent, None, empty, invalid JSON, an object); neither parses
\* the body, validates it, loads the model or runs detection.
C12_GetAndOptions ==
    (Handled /\ event.httpMethod \in {"GET", "OPTIONS"}) =>
        /\ resp.statusCode = 200
        /\ event.httpMethod = "GET" => resp.body.key = "GET_RESPONSE"
        /\ event.httpMethod = "OPTIONS" =>
              resp.body.text = "CORS preflight check successful"
        /\ trace = NoTrace
        /\ call = NoCall
        /\ ret = NoRet

\* A GET whose body is not JSON was answered with the usage document.
C12_Witness ==
    /\ event.httpMethod = "GET"
    /\ event.body.t = "str"
    /\ event.body.text = "invalid json"
    /\ resp.statusCode = 200
    /\ resp.body.key = "GET_RESPONSE"

\* C13: every response carries the CORS headers, on every path: 200, 400
\* and 500.
C13_CorsHeaders ==
    Handled => resp.headers \in {"cors", "cors+content-type"}

(***************************************************************************)
(* Claims about the caches.                                                *)
(***************************************************************************)
\* C14: in one process the detector and the class mapper are each
\* constructed at most once, also when the first calls of several threads
\* run side by side, and every call uses the same instance.
C14_InitOnce ==
    pool # NoPool =>
        /\ pool.detectors <= 1
        /\ pool.mappers <= 1
        /\ \A t, u \in Threads :
              /\ (pool.detector[t] # 0 /\ pool.detector[u] # 0)
                    => pool.detector[t] = pool.detector[u]
              /\ (pool.mapper[t] # 0 /\ pool.mapper[u] # 0)
                    => pool.mapper[t] = pool.mapper[u]

(***************************************************************************)
(* Claims about the detector's construction and dispatch.                  *)
(***************************************************************************)
\* A call on a constructed detector has ended.
Called == call.op = "predict"

\* C15: a detector whose family tag is, in lower case, neither 'yolov8' nor
\* 'rf-detr' fails every call with the unsupported-family error (ValueError)
\* before any preprocessing or inference; a 'yolov8' tag in any case goes
\* down the letterbox+NMS path and an 'rf-detr' tag in any case down the
\* resize+top-K path.
C15_Dispatch ==
    /\ (call.op = "__init__" /\ ret.kind = "OnnxDetector") =>
          /\ call.model_type \in {"yolov8", "YOLOv8"} <=> self.model_type = "yolov8"
          /\ call.model_type \in {"rf-detr", "RF-DETR"} <=> self.model_type = "rf-detr"
    /\ Called =>
          /\ self.model_type \notin {"yolov8", "rf-detr"} =>
                /\ ret = Raised("ValueError")
                /\ call.reached = "dispatch"
                /\ call.runs = 0
          /\ (self.model_type = "yolov8" /\ call.reached = "run" /\ call.engine_ok) =>
                ret = predict_yolov8(self, call.orig_size, call.raw.anchors,
                                     call.conf_thres, call.iou_thres)
          /\ (self.model_type = "rf-detr" /\ call.reached = "run" /\ call.engine_ok) =>
                ret = predict_rfdetr(call.raw.pred_boxes, call.raw.pred_logits,
                                     call.orig_size, call.conf_thres,
                                     MAX_NUMBER_BOXES, call.argsort)

\* A detector made with the tag 'sam' was called and raised ValueError.
C15_Witness ==
    /\ Called
    /\ self.model_type = "sam"
    /\ ret = Raised("ValueError")

\* C16: when the engine's run fails during a call, the caller gets an
\* InferenceError that carries the engine's exception as its cause; the run
\* is made once, and no DetectionResult is returned in its place.
C16_InferenceError ==
    (Called /\ call.reached = "run" /\ ~call.engine_ok) =>
        /\ ret = [kind |-> "raise", exc |-> "InferenceError",
                  cause |-> EngineError]
        /\ call.runs = 1

\* C18: a constructed detector takes (input_height, input_width) from a
\* static 4-D input shape, and has 640 x 640 when the shape is missing, has
\* fewer than 4 dimensions or has a dynamic height or width; both sizes are
\* positive integers.
C18_InputSize ==
    (call.op = "__init__" /\ ret.kind = "OnnxDetector") =>
        \A shape \in {call.session.shape} :
            /\ self.input_height > 0
            /\ self.input_width > 0
            /\ IF Len(shape) = 4 /\ shape[3] # Dynamic /\ shape[4] # Dynamic
               THEN self.input_height = shape[3] /\ self.input_width = shape[4]
               ELSE /\ self.input_height = DEFAULT_INPUT_SIZE
                    /\ self.input_width = DEFAULT_INPUT_SIZE

\* C17: when no query survives the filter (no score is above conf_thres, as
\* with conf_thres = 1.0), the call returns a DetectionResult with empty
\* boxes, scores and labels instead of raising; to_dict_list of an empty
\* result is the empty list, and lambda_handler answers 200 with
\* 'detections': [] (unless the class-name table fails to load, which is a
\* 500).
C17_EmptyResult ==
    (Handled /\ trace.inference /\ ret.kind = "DetectionResult") =>
        /\ (/\ self.model_type = "rf-detr"
            /\ \A q \in DOMAIN call.raw.pred_logits :
                  RawScores(call.raw.pred_logits)[q] <= call.conf_thres)
              => ret = DetectionResult(<<>>, <<>>, <<>>)
        /\ ret = DetectionResult(<<>>, <<>>, <<>>) =>
              /\ to_dict_list(ret) = <<>>
              /\ trace.raised = "" =>
                    /\ resp.statusCode = 200
                    /\ resp.body.key = "detections"
                    /\ resp.body.detections = <<>>
              /\ trace.raised # "" =>
                    /\ ~proc.mapper
                    /\ trace.raised = "No such file or directory: 'coco.yaml'"

\* A POST with conf_thres = 1.0 for which the engine returned a query of
\* score 1.0 was answered 200 with no detections.
C17_Witness ==
    /\ Handled
    /\ trace.inference
    /\ self.model_type = "rf-detr"
    /\ call.conf_thres = One
    /\ Len(call.raw.pred_logits) = 1
    /\ RawScores(call.raw.pred_logits)[1] = One
    /\ ret = DetectionResult(<<>>, <<>>, <<>>)
    /\ resp.statusCode = 200
    /\ resp.body.detections = <<>>

(***************************************************************************)
(* Claims about the input preparers.                                       *)
(***************************************************************************)
Prepared == call.op \in {"_prepare_input", "_prepare_input_rfdetr"}

Letterboxed == call.op = "_prepare_input" /\ ret.kind = "input"

\* C19 (as claimed): both input preparers succeed for every image with width
\* >= 1 and height >= 1 and every positive target size, and the letterbox
\* preparer's scaled width and height are each >= 1 and at most the target
\* width and height.
C19_PreparersSucceed ==
    Prepared =>
        /\ ret.kind = "input"
        /\ call.op = "_prepare_input" =>
               /\ 1 <= ret.scaled_size[1] /\ ret.scaled_size[1] <= call.target[1]
               /\ 1 <= ret.scaled_size[2] /\ ret.scaled_size[2] <= call.target[2]

\* Twice the distance between s and orig * num / den is at most one, and s
\* is the even neighbour when it is exactly one: s = round(orig * num / den).
IsRounded(s, orig, num, den) ==
    LET twice == 2 * (s * den - orig * num)
    IN  /\ twice <= den
        /\ -den <= twice
        /\ (twice = den \/ twice = -den) => s % 2 = 0

\* The sizes are those of ratio = min(target_w / orig_w, target_h / orig_h).
ScaledByMinRatio(orig_size, target, scaled_size) ==
    \E r \in {<<target[1], orig_size[1]>>, <<target[2], orig_size[2]>>} :
        /\ r[1] * orig_size[1] <= target[1] * r[2]
        /\ r[1] * orig_size[2] <= target[2] * r[2]
        /\ IsRounded(scaled_size[1], orig_size[1], r[1], r[2])
        /\ IsRounded(scaled_size[2], orig_size[2], r[1], r[2])

\* C20: the letterbox preparer scales both sides by ratio = min(target_w /
\* orig_w, target_h / orig_h) and rounds them, pastes the resized image at
\* offset (0, 0) and leaves every canvas cell with row >= scaled_h or column
\* >= scaled_w at the padding value 114; a 1280x720 image on a 640x640
\* target gets scaled size 640x360 and padding in rows 360..639.
C20_Letterbox ==
    Letterboxed =>
        /\ ScaledByMinRatio(call.orig_size, call.target, ret.scaled_size)
        /\ \A row \in 0..(call.target[2] - 1), col \in 0..(call.target[1] - 1) :
               IF row >= ret.scaled_size[2] \/ col >= ret.scaled_size[1]
               THEN CanvasCell(ret, row, col) = 114
               ELSE CanvasCell(ret, row, col) = call.pix
        /\ (call.orig_size = <<1280, 720>> /\ call.target = <<640, 640>>) =>
               /\ ret.scaled_size = <<640, 360>>
               /\ \A row \in 360..639, col \in 0..639 : CanvasCell(ret, row, col) = 114

\* C20 witness: the 1280x720 frame prepared for a 640x640 target, with
\* pixels that differ from the padding.
C20_Witness ==
    /\ Letterboxed
    /\ call.orig_size = <<1280, 720>>
    /\ call.target = <<640, 640>>
    /\ call.pix # 114
    /\ ret.scaled_size = <<640, 360>>

(***************************************************************************)
(* Claims about the returned detections.                                   *)
(***************************************************************************)
\* The handler answered 200 with a list of detections.
Answered200 ==
    /\ Handled
    /\ trace.inference
    /\ resp.statusCode = 200
    /\ resp.body.key = "detections"

\* C21 (as claimed): for every detection the handler returns, class_name is
\* the taxonomy-table entry for that detection's class_id, and is 'Unknown'
\* exactly when class_id is not a key of the table; every detection gets a
\* class_name, and the length and order of the list are unchanged by the
\* mapping.
C21_ClassNames ==
    Answered200 =>
        \A plain \in {to_dict_list(ret)} :
            /\ Len(resp.body.detections) = Len(plain)
            /\ \A i \in DOMAIN plain :
                  \A d \in {resp.body.detections[i]} :
                      /\ d.bbox = plain[i].bbox
                      /\ d.score = plain[i].score
                      /\ d.class_id = plain[i].class_id
                      /\ d.class_id \in DOMAIN ClassNames
                            => d.class_name = ClassNames[d.class_id]
                      /\ d.class_name = "Unknown"
                            <=> d.class_id \notin DOMAIN ClassNames

Converted == call.op = "to_dict_list"

\* b is the rational x cut toward zero: b lies between 0 and x and is less
\* than one away from x.
IsTruncation(b, x) ==
    IF x[1] >= 0
    THEN b >= 0 /\ b * x[2] <= x[1] /\ x[1] < (b + 1) * x[2]
    ELSE b <= 0 /\ b * x[2] >= x[1] /\ x[1] > (b - 1) * x[2]

\* C22: DetectionResult.to_dict_list returns exactly len(scores) entries in
\* the order of the arrays, each with a bbox of exactly 4 integers obtained
\* by truncating the corresponding box coordinate toward zero, the score and
\* the integer class_id of the same index.
C22_ToDictList ==
    Converted =>
        /\ Len(ret.value) = Len(call.result.scores)
        /\ \A i \in DOMAIN ret.value :
              \A d \in {ret.value[i]} :
                  /\ DOMAIN d.bbox = 1..4
                  /\ \A k \in 1..4 :
                        /\ d.bbox[k] \in Int
                        /\ IsTruncation(d.bbox[k], call.result.boxes[i][k])
                  /\ d.score = call.result.scores[i]
                  /\ d.class_id = call.result.labels[i]
                  /\ d.class_id \in Int

\* C22 witness: a result of two detections with different scores, the first
\* with a box whose xmin is negative and not whole (cut to 0, where the floor
\* is -1) and whose ymax is 1.5 (cut to 1, where rounding gives 2).
C22_Witness ==
    /\ Converted
    /\ Len(ret.value) = 2
    /\ ret.value[1].score # ret.value[2].score
    /\ \E k \in 1..4 :
          /\ call.result.boxes[1][k][1] < 0
          /\ call.result.boxes[1][k][1] % call.result.boxes[1][k][2] # 0
          /\ ret.value[1].bbox[k] = 0
    /\ \E k \in 1..4 :
          /\ 2 * call.result.boxes[1][k][1] = 3 * call.result.boxes[1][k][2]
          /\ ret.value[1].bbox[k] = 1

(***************************************************************************)
(* Claims about the detector between calls.                                *)
(***************************************************************************)
\* C23: a call of predict, of either family, leaves the detector unchanged
\* (model_path, model_type, input_width, input_height and session are not
\* written), and its result is that of its own arguments on the detector as
\* it was constructed, whatever calls were made before.
C23_DetectorUnchanged ==
    [][(self # NoDetector /\ call'.op = "predict") =>
            /\ self' = self
            /\ ret' = DetectorCall(self, call'.orig_size,
                                   [ok |-> call'.engine_ok, raw |-> call'.raw],
                                   call'.conf_thres, call'.iou_thres,
                                   call'.argsort)]_vars

\* C23 witness: a call returned detections on a detector whose input size,
\* taken from the model at construction, is still not the size argument of
\* the call.
C23_Witness ==
    /\ Called
    /\ self.model_type \in {"yolov8", "rf-detr"}
    /\ self.input_width # DEFAULT_INPUT_SIZE
    /\ self.input_width > 0
    /\ ret.kind = "DetectionResult"
    /\ Len(ret.scores) > 0

\* C24 (as claimed): for every image the handler's validation accepts, of
\* any mode and channel count, each input preparer returns a tensor of shape
\* exactly (1, 3, target_h, target_w) of 32-bit floats.
C24_TensorShape ==
    Prepared =>
        /\ ret.kind = "input"
        /\ ret.shape = <<1, 3, call.target[2], call.target[1]>>
        /\ ret.dtype = "float32"

(***************************************************************************)
(* Claims about the order of validation and detection.                     *)
(***************************************************************************)
\* The threshold detect passes on for a field of the body: the field as a
\* float, or the default when the field is absent or null.
PassedThreshold(value, default) ==
    IF value \in {Absent, JNull} THEN default ELSE ToFloat(value).v

\* C25: in lambda_handler detection, and with it model loading and
\* inference, happens only after validate_body has accepted the request:
\* wherever the detector is made or called the body was valid JSON with a
\* decodable image, and the conf_thres and iou_thres passed to the detector
\* are floats in [0,1], 0.7 and 0.5 when absent; on every 400 path the
\* detector is neither constructed nor called.
C25_DetectAfterValidation ==
    Handled =>
        /\ (trace.detect \/ trace.constructed \/ trace.inference) =>
              /\ trace.parsed
              /\ trace.validate_body
              /\ event.httpMethod \notin {"GET", "OPTIONS"}
              /\ event.body.t = "object"
              /\ ImageOpen(event.body.fields.image).ok
              /\ FirstDefect(event.body.fields) = ""
        /\ (trace.constructed \/ trace.inference) => trace.detect
        /\ trace.inference =>
              /\ call.op = "predict"
              /\ call.conf_thres \in 0..One
              /\ call.iou_thres \in 0..One
              /\ call.conf_thres = PassedThreshold(event.body.fields.conf_thres,
                                                   DEFAULT_CONF_THRES)
              /\ call.iou_thres = PassedThreshold(event.body.fields.iou_thres,
                                                  DEFAULT_IOU_THRES)
        /\ ~trace.inference => call = NoCall
        /\ resp.statusCode = 400 =>
              /\ ~trace.detect
              /\ ~trace.constructed
              /\ ~trace.inference
              /\ call = NoCall

\* C25 witness: a POST with conf_thres '0.5' and no iou_thres reached the
\* detector with 0.5 and the default 0.5 and was answered 200.
C25_Witness ==
    /\ Handled
    /\ trace.inference
    /\ resp.statusCode = 200
    /\ event.body.fields.conf_thres = JStr("0.5")
    /\ event.body.fields.iou_thres = Absent
    /\ call.conf_thres = 500
    /\ call.iou_thres = DEFAULT_IOU_THRES

(***************************************************************************)
(* Claims about the parallel arrays of the query-transformer decoder.      *)
(***************************************************************************)
\* The i-th returned box, score and label are those of input query q: the
\* score is the greatest class probability of q, the label is an index
\* (from 0) at which q has it, and the box is q's box in image pixels.
FromQuery(i, q) ==
    LET row == [c \in DOMAIN call.raw.pred_logits[q] |->
                   Sigmoid(call.raw.pred_logits[q][c])]
    IN  /\ ret.scores[i] \in Range(row)
        /\ \A c \in DOMAIN row : row[c] <= ret.scores[i]
        /\ ret.labels[i] + 1 \in DOMAIN row
        /\ row[ret.labels[i] + 1] = ret.scores[i]
        /\ ret.boxes[i] = box_cxcywh_to_xyxy(call.raw.pred_boxes[q],
                                             call.orig_size[1], call.orig_size[2])

\* C26: in the query-transformer decoder boxes, scores and labels stay
\* parallel through sorting, truncation and filtering: the three have equal
\* length, and the i-th box, score and label all come from one input query,
\* a different query for each i, whose score is its greatest class
\* probability and whose label is the index of that maximum.
C26_ParallelArrays ==
    RfdetrReturned =>
        /\ Len(ret.boxes) = Len(ret.scores)
        /\ Len(ret.labels) = Len(ret.scores)
        /\ \E f \in [1..Len(ret.scores) -> DOMAIN call.raw.pred_logits] :
              /\ \A i, j \in 1..Len(ret.scores) : i # j => f[i] # f[j]
              /\ \A i \in 1..Len(ret.scores) : FromQuery(i, f[i])

\* C26 witness: two queries with different boxes, scores and labels, given
\* in ascending score order, are both returned, the second first.
C26_Witness ==
    /\ RfdetrReturned
    /\ Len(call.raw.pred_logits) = 2
    /\ call.raw.pred_logits = << <<0, 0>>, <<0, 20>> >>
    /\ call.raw.pred_boxes[1] # call.raw.pred_boxes[2]
    /\ ret.scores = <<One, One \div 2>>
    /\ ret.labels = <<1, 0>>
    /\ ret.boxes[1] = box_cxcywh_to_xyxy(call.raw.pred_boxes[2],
                                         call.orig_size[1], call.orig_size[2])

====
